---- MODULE Spec2Model ----
(***************************************************************************)
(* Model of the sponge code generation commands                            *)
(*   cmd/sponge/commands/generate/rpc.go      (sponge micro rpc)           *)
(*   cmd/sponge/commands/generate/model.go    (sponge ... model)           *)
(*   cmd/sponge/commands/patch/gen-db-init.go (sponge patch gen-db-init)   *)
(* Each command is a sequential program; pc is its position.  Strings that *)
(* the code splits or rewrites are sequences (of characters for --db-table,*)
(* of path segments for directories, of text tokens for file content).     *)
(***************************************************************************)
EXTENDS Naturals, Sequences, FiniteSets, TLC

VARIABLES
    cmd,          \* the command that runs: "rpc", "model" or "dbinit"
    pc,           \* position inside the command's RunE
    dbTables,     \* --db-table, a sequence of characters
    tableNames,   \* strings.Split(dbTables, ",")
    idx,          \* position of the range loop in tableNames
    driver,       \* sqlArgs.DBDriver / dbDriver
    embedFlag,    \* --embed as given
    isEmbed,      \* sqlArgs.IsEmbed
    moduleFlag,   \* --module-name as given
    moduleName,   \* moduleName
    serverFlag,   \* --server-name as given
    serverName,   \* serverName
    outFlag,      \* --out as given
    outPath,      \* outPath (reassigned by every pass)
    codes,        \* the code map last returned by sql2code.Generate
    fs,           \* the files that exist on disk
    fs0,          \* history: the files that existed when the command started
    genInfo,      \* the generation-info records that exist on disk
    replacer,     \* the settings of the shared replacer Replacers[TplNameSponge]
    calls,        \* history: collaborator calls, generator passes, reads, in order
    written,      \* history: the files written by the passes that returned no error
    result,       \* what RunE returned
    printed,      \* what the command printed
    gen,          \* an rpcGenerator whose addFields is run twice
    tplFile,      \* the template file both runs transform
    fieldsA,      \* the field list of the first run
    fieldsB,      \* the field list of the second run
    contentA,     \* the file content the first run produces
    contentB,     \* the file content the second run produces
    substGen,     \* an rpcGenerator whose fields are applied to content
    content,      \* the content of a template file
    output,       \* the content after the field substitution
    tree,         \* the template tree a model or gen-db-init pass reads
    scopeKind,    \* the generator of that pass: "model" or "dbinit"
    scopeDriver,  \* its dbDriver
    scopePc,      \* position of the pass: "scope", "save", "done" or "failed"
    selected,     \* the template files the replacer's scope keeps
    pending,      \* the selected files SaveFiles has not written yet
    materialized  \* the files SaveFiles has written

pipeVars == <<cmd, pc, dbTables, tableNames, idx, driver, embedFlag, isEmbed,
              moduleFlag, moduleName, serverFlag, serverName, outFlag, outPath, codes, fs, fs0, genInfo,
              replacer, calls, written, result, printed>>

fieldVars == <<gen, tplFile, fieldsA, fieldsB, contentA, contentB>>

substVars == <<substGen, content, output>>

scopeVars == <<tree, scopeKind, scopeDriver, scopePc, selected, pending, materialized>>

-----------------------------------------------------------------------------
(* Bounds of the model *)

MaxTablesLen == 6

(* Input alphabets *)

TableChars == {"t", ","}

Drivers == {"mysql", "postgresql", "tidb", "sqlite", "mongodb", "MongoDB", "oracle"}

Cwd == <<"/", "cwd">>

OutFlags == {<<>>, <<"srv">>, <<"/", "cwd", "srv">>}

ServerNames == {"user", "user-svc"}

StringsUpTo(n) == UNION {[1..k -> TableChars] : k \in 0..n}

-----------------------------------------------------------------------------
(* Driver names and their classification *)

DBDriverMysql == "mysql"
DBDriverPostgresql == "postgresql"
DBDriverTidb == "tidb"
DBDriverSqlite == "sqlite"
DBDriverMongodb == "mongodb"

\* strings.ToLower on the driver names the model draws
ToLower(s) == IF s = "MongoDB" THEN "mongodb" ELSE s

\* the switch of rpcGenerator.generateCode and dbInitGenerator.generateCode
DriverScope(d) ==
    CASE ToLower(d) \in {DBDriverMysql, DBDriverPostgresql, DBDriverTidb, DBDriverSqlite} -> "sql"
      [] ToLower(d) = DBDriverMongodb -> "mongo"
      [] OTHER -> "unsupported"

ForceNoEmbedNever(d) == FALSE

\* if sqlArgs.DBDriver == DBDriverMongodb { sqlArgs.IsEmbed = false }
ForceNoEmbed(d) == d = DBDriverMongodb

EmbedFor(d, e) == IF ForceNoEmbed(d) THEN FALSE ELSE e

-----------------------------------------------------------------------------
(* strings.Split(s, ","): always at least one entry; "" gives one empty entry *)

RECURSIVE SplitFrom(_, _, _)
SplitFrom(s, cur, i) ==
    IF i > Len(s) THEN <<cur>>
    ELSE IF s[i] = "," THEN <<cur>> \o SplitFrom(s, <<>>, i + 1)
    ELSE SplitFrom(s, Append(cur, s[i]), i + 1)

Split(s) == SplitFrom(s, <<>>, 1)

\* convertProjectAndServerName: the server name with "-" turned into "_"
ConvertServerName(s) == IF s = "user-svc" THEN "user_svc" ELSE s

-----------------------------------------------------------------------------
(* Paths, the replacer's output directory and the files of a pass *)

IsAbs(p) == Len(p) > 0 /\ p[1] = "/"

Abs(p) == IF IsAbs(p) THEN p ELSE Cwd \o p

\* replacer.SetOutputDir followed by GetOutputDir: the given directory made
\* absolute, or a fresh <name>_<time> directory under the working directory
OutputDir(absPath, name) ==
    IF absPath # <<>> THEN Abs(absPath) ELSE Cwd \o <<name \o "_<time>">>

NoTable == <<>>

File(dir, name, table) == [dir |-> dir, name |-> name, table |-> table]

TargetFile == "internal/model/init.go"

\* the files a pass of each kind materializes, in the order SaveFiles writes them
PassFiles(kind, table) ==
    CASE kind = "rpc" -> <<[name |-> "go.mod", table |-> NoTable],
                           [name |-> TargetFile, table |-> NoTable],
                           [name |-> "internal/service/<table>.go", table |-> table]>>
      [] kind = "service" -> <<[name |-> "internal/dao/<table>.go", table |-> table],
                               [name |-> "internal/service/<table>.go", table |-> table]>>
      [] kind = "model" -> <<[name |-> "internal/model/<table>.go", table |-> table]>>
      [] OTHER -> <<[name |-> TargetFile, table |-> NoTable]>>

\* the first k files of a pass, placed under dir
FilesUnder(dir, kind, table, k) ==
    {File(dir, PassFiles(kind, table)[i].name, PassFiles(kind, table)[i].table) : i \in 1..k}

\* gofile.IsExists(name): a relative name is looked up in the working directory
IsExists(files, name) == \E f \in files : f.dir = Cwd /\ f.name = name

\* getNamesFromOutDir: the module name of the record kept in directory outDir
RecordedModule(infos, outDir) ==
    IF outDir # <<>> /\ \E g \in infos : g.dir = Abs(outDir)
    THEN (CHOOSE g \in infos : g.dir = Abs(outDir)).moduleName
    ELSE ""

\* saveGenInfo: the record of directory dir is replaced
SaveGenInfo(infos, mdName, srvName, dir) ==
    {g \in infos : g.dir # dir} \cup {[dir |-> dir, moduleName |-> mdName, serverName |-> srvName]}

-----------------------------------------------------------------------------
(* History records *)

\* op: "collab" (sql2code.Generate), "gen" (a generateCode pass), "readinfo"
\* (getNamesFromOutDir), "exists" (gofile.IsExists); out is the outPath the
\* pass was started with, ret the directory it returned
Event(op, kind, table, d, e, out, ret, err) ==
    [op |-> op, kind |-> kind, table |-> table, driver |-> d, embed |-> e,
     out |-> out, ret |-> ret, err |-> err]

NoResult == [status |-> "running", err |-> "", out |-> <<>>]

Failed(err) == [status |-> "error", err |-> err, out |-> <<>>]

Succeeded(out) == [status |-> "ok", err |-> "", out |-> out]

NoReplacer == [subDirs |-> {}, ignoreFiles |-> {}, outputDir |-> <<>>]

NoCodes == [table |-> NoTable, driver |-> "", embed |-> FALSE]

ErrCollaborator == "sql2code: schema error"
ErrSaveFiles == "replacer: save files error"
ErrDriverRPC == "unsupported db driver"
ErrDriverInit == "unsupported database driver"
ErrModuleName == "required flag(s) module-name not set"

-----------------------------------------------------------------------------
(* Text: file content, and the Old and New of a replacement field, are         *)
(* sequences of tokens; a token is a piece of text no rule matches inside.     *)

Tok(t) == <<t>>

SelfPackageName == "github.com/zhufuyi/sponge"

\* r.GetSourcePath(): where the template tree lives inside the sponge module
SourcePath == "templates/sponge"

Field(old, new) == [Old |-> old, New |-> new, IsCaseSensitive |-> FALSE]

CaseSensitiveField(old, new) == [Old |-> old, New |-> new, IsCaseSensitive |-> TRUE]

\* deleteFieldsMark / deleteAllFieldsMark: the marked block of a template file,
\* replaced by nothing
DeleteFieldsMark(file) == <<Field(Tok("<marked block of " \o file \o ">"), <<>>)>>

\* replaceFileContentMark: the marked content of a template file, replaced by text
ReplaceFileContentMark(file, text) == <<Field(Tok("<marked content of " \o file \o ">"), text)>>

\* the values the field list takes from helpers, each a function of its arguments
RepoHost(repoAddr) == Tok("<host of " \o repoAddr \o ">")
DBConfigCode(d) == Tok("<db config code for " \o d \o ">")
InitDBCode(d) == Tok("<init db code for " \o d \o ">")
EmbedTimeCode(e) == Tok(IF e THEN "<embed time code>" ELSE "<plain time code>")
AdjustmentOfIDType(code, d) == code \o Tok("<id type for " \o d \o ">")
LocalSpongeTemplateVersion == Tok("<local template version>")
SqliteDSNAdaptation(d, dsn) == Tok("<sqlite dsn " \o dsn \o " for " \o d \o ">")
ToKebabCase(s) == IF s = "user_svc" THEN "user-svc" ELSE s

\* sql2code.Generate: the code map of a table, a function of the arguments
CodesOf(table, d, e) ==
    [model |-> Tok("<model code of " \o table \o ">") \o EmbedTimeCode(e),
     dao |-> Tok("<dao code of " \o table \o " for " \o d \o ">"),
     proto |-> Tok("<proto code of " \o table \o ">"),
     service |-> Tok("<service code of " \o table \o ">"),
     tableName |-> Tok(table)]

\* rand.Intn(RandN) draws from 0 .. RandN-1
RandN == 100

\* lines 233-255: the block deletions, in the order they are appended
RPCMarkFields(g) ==
    DeleteFieldsMark("modelFile") \o DeleteFieldsMark("modelInitDBFile")
    \o DeleteFieldsMark("daoFile") \o DeleteFieldsMark("daoMgoFile")
    \o DeleteFieldsMark("daoTestFile") \o DeleteFieldsMark("protoFile")
    \o DeleteFieldsMark("serviceLogicFile") \o DeleteFieldsMark("serviceClientFile")
    \o DeleteFieldsMark("serviceClientMgoFile") \o DeleteFieldsMark("serviceTestFile")
    \o DeleteFieldsMark("dockerFile") \o DeleteFieldsMark("dockerFileBuild")
    \o DeleteFieldsMark("dockerComposeFile") \o DeleteFieldsMark("k8sDeploymentFile")
    \o DeleteFieldsMark("k8sServiceFile") \o DeleteFieldsMark("imageBuildFile")
    \o DeleteFieldsMark("imageBuildLocalFile") \o DeleteFieldsMark("makeFile")
    \o DeleteFieldsMark("gitIgnoreFile") \o DeleteFieldsMark("protoShellFile")
    \o DeleteFieldsMark("appConfigFile")
    \o ReplaceFileContentMark("readmeFile", Tok("## " \o g.serverName))

\* lines 257-328: the insertion markers
RPCCodeFields(g) ==
    <<Field(Tok("appConfigFileMark"), Tok("rpcServerConfigCode")),
      Field(Tok("appConfigFileMark2"), DBConfigCode(g.dbDriver)),
      Field(Tok("modelFileMark"), g.codes.model),
      Field(Tok("modelInitDBFileMark"), InitDBCode(g.dbDriver)),
      Field(Tok("daoFileMark"), g.codes.dao),
      Field(Tok("embedTimeMark"), EmbedTimeCode(g.isEmbed)),
      Field(Tok("protoFileMark"), g.codes.proto),
      Field(Tok("protoShellFileGRPCMark"), Tok("protoShellGRPCMark")),
      Field(Tok("protoShellFileMark"), Tok("protoShellServiceTmplCode")),
      Field(Tok("serviceFileMark"), AdjustmentOfIDType(g.codes.service, g.dbDriver)),
      Field(Tok("dockerFileMark"), Tok("dockerFileGrpcCode")),
      Field(Tok("dockerFileBuildMark"), Tok("dockerFileBuildGrpcCode")),
      Field(Tok("imageBuildFileMark"), Tok("imageBuildFileGrpcCode")),
      Field(Tok("imageBuildLocalFileMark"), Tok("imageBuildLocalFileGrpcCode")),
      Field(Tok("dockerComposeFileMark"), Tok("dockerComposeFileGrpcCode")),
      Field(Tok("k8sDeploymentFileMark"), Tok("k8sDeploymentFileGrpcCode")),
      Field(Tok("k8sServiceFileMark"), Tok("k8sServiceFileGrpcCode"))>>

\* lines 329-337: the template's own import path, then the api directory name
RPCSourcePathFields(g) ==
    <<Field(<<SelfPackageName, "/", SourcePath>>, g.moduleName),
      Field(<<"api", "/", "userExample", "/", "v1">>, <<"api", "/", g.serverName, "/", "v1">>)>>

RPCModulePathFieldsNarrowFirst(g) ==
    <<Field(g.moduleName \o <<"/", "pkg">>, <<"github.com/zhufuyi/sponge", "/", "pkg">>),
      Field(<<"github.com/zhufuyi/sponge">>, g.moduleName)>>

\* lines 338-345: the module path rewrite, then the rule that restores .../pkg
RPCModulePathFields(g) ==
    <<Field(<<"github.com/zhufuyi/sponge">>, g.moduleName),
      Field(g.moduleName \o <<"/", "pkg">>, <<"github.com/zhufuyi/sponge", "/", "pkg">>)>>

\* lines 362-365: New: fmt.Sprintf("_userExampleNO       = %d", rand.Intn(100))
RPCNumberField(g, n) ==
    Field(<<"_userExampleNO       = ", "2">>, <<"_userExampleNO       = ", ToString(n)>>)

RPCNameFieldsUnordered(g, n) ==
    LET fs1 == <<Field(Tok("spongeTemplateVersionMark"), LocalSpongeTemplateVersion),
                 Field(<<"api", "/", "userExample", "/", "v1">>, <<"api", "/", g.serverName, "/", "v1">>),
                 Field(<<"api.userExample.v1">>, Tok("api." \o g.serverName \o ".v1")),
                 Field(<<"sponge api docs">>, Tok(g.serverName \o " api docs")),
                 RPCNumberField(g, n),
                 Field(<<"serverNameExample">>, Tok(g.serverName))>>
    IN IF n % 2 = 0 THEN fs1 ELSE <<fs1[2], fs1[1]>> \o SubSeq(fs1, 3, Len(fs1))

\* lines 346-369
RPCNameFields(g, n) ==
    <<Field(Tok("spongeTemplateVersionMark"), LocalSpongeTemplateVersion),
      Field(<<"api", "/", "userExample", "/", "v1">>, <<"api", "/", g.serverName, "/", "v1">>),
      Field(<<"api.userExample.v1">>, Tok("api." \o g.serverName \o ".v1")),
      Field(<<"sponge api docs">>, Tok(g.serverName \o " api docs")),
      RPCNumberField(g, n),
      Field(<<"serverNameExample">>, Tok(g.serverName))>>

\* lines 370-428
RPCDeployFields(g) ==
    <<Field(<<"server-name-example">>, Tok(ToKebabCase(g.serverName))),
      Field(<<"project-name-example">>, Tok(g.projectName)),
      Field(<<"projectNameExample">>, Tok(g.projectName)),
      Field(<<"repo-addr-example">>, Tok(g.repoAddr)),
      Field(<<"image-repo-host">>, RepoHost(g.repoAddr)),
      Field(<<"_grpcExample">>, <<>>),
      Field(<<"_mixExample">>, <<>>),
      Field(<<"root:123456@(192.168.3.37:3306)/account">>, Tok(g.dbDSN)),
      Field(<<"root:123456@192.168.3.37:5432/account">>, Tok(g.dbDSN)),
      Field(<<"test/sql/sqlite/sponge.db">>, SqliteDSNAdaptation(g.dbDriver, g.dbDSN)),
      Field(<<"init.go.mgo">>, <<"init.go">>),
      Field(<<"userExample_client_test.go.mgo">>, <<"userExample_client_test.go">>),
      Field(<<"userExample.go.mgo">>, <<"userExample.go">>),
      CaseSensitiveField(<<"UserExample">>, g.codes.tableName)>>

\* rpcGenerator.addFields, lines 228-432; n is what rand.Intn(100) returns
addFields(g, n) ==
    RPCMarkFields(g) \o RPCCodeFields(g) \o RPCSourcePathFields(g) \o RPCModulePathFields(g)
    \o RPCNameFields(g, n) \o RPCDeployFields(g)

-----------------------------------------------------------------------------
(* The field substitution of the replacer: each field in list order, each a    *)
(* literal replacement of every occurrence, left to right                      *)

IsPrefixAt(text, old, i) ==
    /\ i + Len(old) - 1 <= Len(text)
    /\ \A k \in 1..Len(old) : text[i + k - 1] = old[k]

RECURSIVE ReplaceFrom(_, _, _, _)
ReplaceFrom(text, old, new, i) ==
    IF i > Len(text) THEN <<>>
    ELSE IF IsPrefixAt(text, old, i)
         THEN new \o ReplaceFrom(text, old, new, i + Len(old))
         ELSE <<text[i]>> \o ReplaceFrom(text, old, new, i + 1)

\* bytes.ReplaceAll(data, field.Old, field.New) for a non-empty Old (a text without
\* the first token of Old has no occurrence of Old and is returned as it is)
ReplaceAll(text, old, new) ==
    IF old = <<>> \/ \A i \in DOMAIN text : text[i] # old[1] THEN text
    ELSE ReplaceFrom(text, old, new, 1)

\* (the test on Len(next) has TLC compute the text of each step before the
\* next step starts; it is always true)
RECURSIVE ApplyFrom(_, _, _)
ApplyFrom(fields, text, i) ==
    IF i > Len(fields) THEN text
    ELSE LET next == ReplaceAll(text, fields[i].Old, fields[i].New)
         IN IF Len(next) >= 0 THEN ApplyFrom(fields, next, i + 1) ELSE next

\* the content of one output file: every field applied in list order
ApplyFields(fields, text) == ApplyFrom(fields, text, 1)

-----------------------------------------------------------------------------
(* The scope rpcGenerator.generateCode hands to the shared replacer *)

RPCSubDirs ==
    {"sponge/api", "cmd/serverNameExample_grpcExample", "sponge/configs", "sponge/deployments",
     "sponge/scripts", "sponge/internal", "sponge/third_party",
     "sponge/.gitignore", "sponge/.golangci.yml", "sponge/go.mod", "sponge/go.sum",
     "sponge/Jenkinsfile", "sponge/Makefile", "sponge/README.md"}

RPCIgnoreCommon ==
    {"userExample_http.go", "systemCode_http.go", "http.go", "http_option.go", "http_test.go",
     "scripts/swag-docs.sh", "types.pb.validate.go", "types.pb.go",
     "userExample.pb.go", "userExample.pb.validate.go", "userExample_grpc.pb.go",
     "userExample_router.pb.go", "init_test.go",
     "doc.go", "cacheNameExample.go", "cacheNameExample_test.go",
     "userExample_logic.go", "userExample_logic_test.go", "service/userExample_test.go"}

RPCIgnoreFiles(d) ==
    IF DriverScope(d) = "sql"
    THEN RPCIgnoreCommon \cup
         {"init.go.mgo", "cache/userExample.go.mgo", "dao/userExample.go.mgo",
          "service/userExample.go.mgo", "service/userExample_client_test.go.mgo"}
    ELSE RPCIgnoreCommon \cup
         {"init.go", "cache/userExample.go", "cache/userExample_test.go",
          "dao/userExample_test.go", "dao/userExample.go",
          "service/userExample.go", "service/userExample_client_test.go"}

-----------------------------------------------------------------------------
(* sponge micro rpc: RPCCommand.RunE *)

\* lines 59-72: split --db-table, convert the names, force embed off for mongodb
RPCSplitTables ==
    /\ cmd = "rpc" /\ pc = "rpc_start"
    /\ tableNames' = Split(dbTables)
    /\ serverName' = ConvertServerName(serverName)
    /\ isEmbed' = EmbedFor(driver, isEmbed)
    /\ idx' = 1
    /\ pc' = "rpc_collab"
    /\ UNCHANGED <<fieldVars, substVars, scopeVars, cmd, fs0, dbTables, driver, embedFlag, moduleFlag, moduleName, serverFlag,
                   outFlag, outPath, codes, fs, genInfo, replacer, calls, written, result,
                   printed>>

\* lines 74-78: sqlArgs.DBTable = firstTable; codes, err := sql2code.Generate(&sqlArgs)
RPCPrimaryCollaborator ==
    /\ cmd = "rpc" /\ pc = "rpc_collab"
    /\ LET firstTable == tableNames[1] IN
       \/ /\ calls' = Append(calls, Event("collab", "", firstTable, driver, isEmbed, <<>>, <<>>, ""))
          /\ codes' = [table |-> firstTable, driver |-> driver, embed |-> isEmbed]
          /\ pc' = "rpc_gen"
          /\ UNCHANGED result
       \/ /\ calls' = Append(calls, Event("collab", "", firstTable, driver, isEmbed, <<>>, <<>>,
                                          ErrCollaborator))
          /\ result' = Failed(ErrCollaborator)
          /\ pc' = "done"
          /\ UNCHANGED codes
    /\ UNCHANGED <<fieldVars, substVars, scopeVars, cmd, fs0, dbTables, tableNames, idx, driver, embedFlag, isEmbed, moduleFlag, moduleName,
                   serverFlag, serverName, outFlag, outPath, fs, genInfo, replacer, written, printed>>

\* lines 79-93 and rpcGenerator.generateCode, lines 165-226
RPCPrimaryGenerate ==
    /\ cmd = "rpc" /\ pc = "rpc_gen"
    /\ LET dir == OutputDir(outPath, serverName \o "_rpc")
           n == Len(PassFiles("rpc", codes.table))
           ev(ret, err) == Event("gen", "rpc", codes.table, driver, isEmbed, outPath, ret, err)
       IN
       \/ /\ DriverScope(driver) = "unsupported"
          /\ calls' = Append(calls, ev(<<>>, ErrDriverRPC))
          /\ result' = Failed(ErrDriverRPC)
          /\ outPath' = <<>>
          /\ pc' = "done"
          /\ UNCHANGED <<fs, genInfo, replacer, written>>
       \/ /\ DriverScope(driver) # "unsupported"
          /\ replacer' = [subDirs |-> RPCSubDirs, ignoreFiles |-> RPCIgnoreFiles(driver),
                          outputDir |-> dir]
          /\ \/ \E k \in 0..(n - 1) :
                   /\ fs' = fs \cup FilesUnder(dir, "rpc", codes.table, k)
                   /\ calls' = Append(calls, ev(<<>>, ErrSaveFiles))
                   /\ result' = Failed(ErrSaveFiles)
                   /\ outPath' = <<>>
                   /\ pc' = "done"
                   /\ UNCHANGED <<genInfo, written>>
             \/ /\ fs' = fs \cup FilesUnder(dir, "rpc", codes.table, n)
                /\ written' = written \cup FilesUnder(dir, "rpc", codes.table, n)
                \* _ = saveGenInfo(...): the record is written, or the write fails unnoticed
                /\ genInfo' \in {SaveGenInfo(genInfo, moduleName, serverName, dir), genInfo}
                /\ calls' = Append(calls, ev(dir, ""))
                /\ outPath' = dir
                /\ pc' = "rpc_loop"
                /\ UNCHANGED result
    /\ UNCHANGED <<fieldVars, substVars, scopeVars, cmd, fs0, dbTables, tableNames, idx, driver, embedFlag, isEmbed, moduleFlag, moduleName,
                   serverFlag, serverName, outFlag, codes, printed>>

ServicesTableNamesWithFirst(names) == names

\* servicesTableNames = tableNames[1:]
ServicesTableNames(names) == SubSeq(names, 2, Len(names))

\* lines 95-98: the head of the range loop over servicesTableNames
RPCNextService ==
    /\ cmd = "rpc" /\ pc = "rpc_loop"
    /\ LET services == ServicesTableNames(tableNames) IN
       \/ /\ idx > Len(services)
          /\ pc' = "rpc_finish"
          /\ UNCHANGED idx
       \/ /\ idx <= Len(services)
          /\ services[idx] = <<>>
          /\ idx' = idx + 1
          /\ UNCHANGED pc
       \/ /\ idx <= Len(services)
          /\ services[idx] # <<>>
          /\ pc' = "svc_collab"
          /\ UNCHANGED idx
    /\ UNCHANGED <<fieldVars, substVars, scopeVars, cmd, fs0, dbTables, tableNames, driver, embedFlag, isEmbed, moduleFlag, moduleName,
                   serverFlag, serverName, outFlag, outPath, codes, fs, genInfo, replacer, calls,
                   written, result, printed>>

RPCServiceCollaboratorIgnoringError ==
    /\ cmd = "rpc" /\ pc = "svc_collab"
    /\ LET table == ServicesTableNames(tableNames)[idx] IN
       \/ /\ calls' = Append(calls, Event("collab", "", table, driver, isEmbed, <<>>, <<>>, ""))
          /\ codes' = [table |-> table, driver |-> driver, embed |-> isEmbed]
          /\ pc' = "svc_gen"
          /\ UNCHANGED <<result, idx>>
       \/ /\ calls' = Append(calls, Event("collab", "", table, driver, isEmbed, <<>>, <<>>,
                                          ErrCollaborator))
          /\ result' = Failed(ErrCollaborator)
          /\ idx' = idx + 1
          /\ pc' = "rpc_loop"
          /\ UNCHANGED codes
    /\ UNCHANGED <<fieldVars, substVars, scopeVars, cmd, fs0, dbTables, tableNames, driver, embedFlag, isEmbed, moduleFlag, moduleName,
                   serverFlag, serverName, outFlag, outPath, fs, genInfo, replacer, written, printed>>

\* lines 100-104: sqlArgs.DBTable = serviceTableName; sql2code.Generate(&sqlArgs)
RPCServiceCollaborator ==
    /\ cmd = "rpc" /\ pc = "svc_collab"
    /\ LET table == ServicesTableNames(tableNames)[idx] IN
       \/ /\ calls' = Append(calls, Event("collab", "", table, driver, isEmbed, <<>>, <<>>, ""))
          /\ codes' = [table |-> table, driver |-> driver, embed |-> isEmbed]
          /\ pc' = "svc_gen"
          /\ UNCHANGED result
       \/ /\ calls' = Append(calls, Event("collab", "", table, driver, isEmbed, <<>>, <<>>,
                                          ErrCollaborator))
          /\ result' = Failed(ErrCollaborator)
          /\ pc' = "done"
          /\ UNCHANGED codes
    /\ UNCHANGED <<fieldVars, substVars, scopeVars, cmd, fs0, dbTables, tableNames, idx, driver, embedFlag, isEmbed, moduleFlag, moduleName,
                   serverFlag, serverName, outFlag, outPath, fs, genInfo, replacer, written, printed>>

ServiceOutPathFromFlag(flag, threaded) == flag

\* line 112: outPath: outPath, the variable the previous pass assigned
ServiceOutPath(flag, threaded) == threaded

\* lines 106-117 and serviceGenerator.generateCode
RPCServiceGenerate ==
    /\ cmd = "rpc" /\ pc = "svc_gen"
    /\ LET start == ServiceOutPath(outFlag, outPath)
           dir == OutputDir(start, "service")
           n == Len(PassFiles("service", codes.table))
           ev(ret, err) == Event("gen", "service", codes.table, driver, isEmbed, start, ret, err)
       IN
       /\ replacer' = [subDirs |-> {"internal/service", "internal/dao", "internal/cache",
                                    "internal/ecode", "internal/model", "api/serverNameExample"},
                       ignoreFiles |-> replacer.ignoreFiles, outputDir |-> dir]
       /\ \/ \E k \in 0..(n - 1) :
                /\ fs' = fs \cup FilesUnder(dir, "service", codes.table, k)
                /\ calls' = Append(calls, ev(<<>>, ErrSaveFiles))
                /\ result' = Failed(ErrSaveFiles)
                /\ outPath' = <<>>
                /\ pc' = "done"
                /\ UNCHANGED <<written, idx>>
          \/ /\ fs' = fs \cup FilesUnder(dir, "service", codes.table, n)
             /\ written' = written \cup FilesUnder(dir, "service", codes.table, n)
             /\ calls' = Append(calls, ev(dir, ""))
             /\ outPath' = dir
             /\ idx' = idx + 1
             /\ pc' = "rpc_loop"
             /\ UNCHANGED result
    /\ UNCHANGED <<fieldVars, substVars, scopeVars, cmd, fs0, dbTables, tableNames, driver, embedFlag, isEmbed, moduleFlag, moduleName,
                   serverFlag, serverName, outFlag, codes, genInfo, printed>>

\* lines 120-130: the success message, then the best-effort generateConfigmap
RPCFinish ==
    /\ cmd = "rpc" /\ pc = "rpc_finish"
    /\ printed' = Append(printed, [msg |-> "generate grpc service code successfully", out |-> outPath])
    /\ fs' \in {fs, fs \cup {File(outPath, "deployments/kubernetes/configmap.yml", NoTable)}}
    /\ result' = Succeeded(outPath)
    /\ pc' = "done"
    /\ UNCHANGED <<fieldVars, substVars, scopeVars, cmd, fs0, dbTables, tableNames, idx, driver, embedFlag, isEmbed, moduleFlag, moduleName,
                   serverFlag, serverName, outFlag, outPath, codes, genInfo, replacer, calls, written>>

-----------------------------------------------------------------------------
(* sponge ... model: ModelCommand.RunE *)

\* line 49: tableNames := strings.Split(dbTables, ",")
ModelSplitTables ==
    /\ cmd = "model" /\ pc = "model_start"
    /\ tableNames' = Split(dbTables)
    /\ idx' = 1
    /\ pc' = "model_loop"
    /\ UNCHANGED <<fieldVars, substVars, scopeVars, cmd, fs0, dbTables, driver, embedFlag, isEmbed, moduleFlag, moduleName,
                   serverFlag, serverName, outFlag, outPath, codes, fs, genInfo, replacer,
                   calls, written, result, printed>>

\* lines 50-53: the head of the range loop over tableNames
ModelNextTable ==
    /\ cmd = "model" /\ pc = "model_loop"
    /\ \/ /\ idx > Len(tableNames)
          /\ pc' = "model_finish"
          /\ UNCHANGED idx
       \/ /\ idx <= Len(tableNames)
          /\ tableNames[idx] = <<>>
          /\ idx' = idx + 1
          /\ UNCHANGED pc
       \/ /\ idx <= Len(tableNames)
          /\ tableNames[idx] # <<>>
          /\ pc' = "model_collab"
          /\ UNCHANGED idx
    /\ UNCHANGED <<fieldVars, substVars, scopeVars, cmd, fs0, dbTables, tableNames, driver, embedFlag, isEmbed, moduleFlag,
                   moduleName, serverFlag, serverName, outFlag, outPath, codes, fs, genInfo,
                   replacer, calls, written, result, printed>>

\* lines 55-62: force embed off for mongodb, then sql2code.Generate(&sqlArgs)
ModelCollaborator ==
    /\ cmd = "model" /\ pc = "model_collab"
    /\ LET table == tableNames[idx]
           embed == EmbedFor(driver, isEmbed)
       IN
       /\ isEmbed' = embed
       /\ \/ /\ calls' = Append(calls, Event("collab", "", table, driver, embed, <<>>, <<>>, ""))
             /\ codes' = [table |-> table, driver |-> driver, embed |-> embed]
             /\ pc' = "model_gen"
             /\ UNCHANGED result
          \/ /\ calls' = Append(calls, Event("collab", "", table, driver, embed, <<>>, <<>>,
                                             ErrCollaborator))
             /\ result' = Failed(ErrCollaborator)
             /\ pc' = "done"
             /\ UNCHANGED codes
    /\ UNCHANGED <<fieldVars, substVars, scopeVars, cmd, fs0, dbTables, tableNames, idx, driver, embedFlag, moduleFlag, moduleName,
                   serverFlag, serverName, outFlag, outPath, fs, genInfo, replacer, written,
                   printed>>

ModelIgnoreFilesRelationalOnly == {"init.go", "init_test.go"}

\* ignoreFiles of modelGenerator.generateCode
ModelIgnoreFiles == {"init.go", "init_test.go", "init.go.mgo"}

\* lines 64-71 and modelGenerator.generateCode, lines 101-126
ModelGenerate ==
    /\ cmd = "model" /\ pc = "model_gen"
    /\ LET dir == OutputDir(outPath, "model")
           n == Len(PassFiles("model", codes.table))
           ev(ret, err) == Event("gen", "model", codes.table, driver, isEmbed, outPath, ret, err)
       IN
       /\ replacer' = [subDirs |-> {"internal/model"}, ignoreFiles |-> ModelIgnoreFiles,
                       outputDir |-> dir]
       /\ \/ \E k \in 0..(n - 1) :
                /\ fs' = fs \cup FilesUnder(dir, "model", codes.table, k)
                /\ calls' = Append(calls, ev(<<>>, ErrSaveFiles))
                /\ result' = Failed(ErrSaveFiles)
                /\ outPath' = <<>>
                /\ pc' = "done"
                /\ UNCHANGED <<written, idx>>
          \/ /\ fs' = fs \cup FilesUnder(dir, "model", codes.table, n)
             /\ written' = written \cup FilesUnder(dir, "model", codes.table, n)
             /\ calls' = Append(calls, ev(dir, ""))
             /\ outPath' = dir
             /\ idx' = idx + 1
             /\ pc' = "model_loop"
             /\ UNCHANGED result
    /\ UNCHANGED <<fieldVars, substVars, scopeVars, cmd, fs0, dbTables, tableNames, driver, embedFlag, isEmbed, moduleFlag,
                   moduleName, serverFlag, serverName, outFlag, codes, genInfo, printed>>

\* lines 74-80: the success message
ModelFinish ==
    /\ cmd = "model" /\ pc = "model_finish"
    /\ printed' = Append(printed, [msg |-> "generate model code successfully", out |-> outPath])
    /\ result' = Succeeded(outPath)
    /\ pc' = "done"
    /\ UNCHANGED <<fieldVars, substVars, scopeVars, cmd, fs0, dbTables, tableNames, idx, driver, embedFlag, isEmbed, moduleFlag,
                   moduleName, serverFlag, serverName, outFlag, outPath, codes, fs, genInfo,
                   replacer, calls, written>>

-----------------------------------------------------------------------------
(* sponge patch gen-db-init: GenerateDBInitCommand.RunE *)

ResolveModuleNameFlagFirst(mdName, flag) == IF flag # "" THEN flag ELSE mdName

\* lines 40-42: if mdName != "" { moduleName = mdName }
ResolveModuleName(mdName, flag) == IF mdName # "" THEN mdName ELSE flag

\* lines 39-44: the module name of the output directory's record wins over the
\* flag; with neither, the required-flag error
DBInitNames ==
    /\ cmd = "dbinit" /\ pc = "dbinit_start"
    \* getNamesFromOutDir(outPath) reads the record file of a given directory
    /\ calls' = IF outPath = <<>> THEN calls
                ELSE Append(calls, Event("readinfo", "", NoTable, driver, FALSE, outPath, <<>>, ""))
    /\ LET name == ResolveModuleName(RecordedModule(genInfo, outPath), moduleName) IN
       \/ /\ name # ""
          /\ moduleName' = name
          /\ pc' = "dbinit_check"
          /\ UNCHANGED result
       \/ /\ name = ""
          /\ result' = Failed(ErrModuleName)
          /\ pc' = "done"
          /\ UNCHANGED moduleName
    /\ UNCHANGED <<fieldVars, substVars, scopeVars, cmd, fs0, dbTables, tableNames, idx, driver, embedFlag, isEmbed, moduleFlag,
                   serverFlag, serverName, outFlag, outPath, codes, fs, genInfo, replacer,
                   written, printed>>

TargetExistsUnderOut(files, out, name) == \E f \in files : f.dir = Abs(out) /\ f.name = name

\* line 51: gofile.IsExists(targetFile), targetFile = "internal/model/init.go"
TargetExists(files, out, name) == IsExists(files, name)

\* lines 46-55: with --out given, an existing target file cancels the generation
DBInitCollision ==
    /\ cmd = "dbinit" /\ pc = "dbinit_check"
    /\ \/ /\ outPath = <<>>
          /\ pc' = "dbinit_gen"
          /\ UNCHANGED <<calls, result, printed>>
       \/ /\ outPath # <<>>
          /\ calls' = Append(calls, Event("exists", "", NoTable, driver, FALSE, outPath, <<>>, ""))
          /\ \/ /\ TargetExists(fs, outPath, TargetFile)
                /\ printed' = Append(printed, [msg |-> "already exists, no need to generate it",
                                               out |-> <<>>])
                /\ result' = [status |-> "noop", err |-> "", out |-> <<>>]
                /\ pc' = "done"
             \/ /\ ~TargetExists(fs, outPath, TargetFile)
                /\ pc' = "dbinit_gen"
                /\ UNCHANGED <<result, printed>>
    /\ UNCHANGED <<fieldVars, substVars, scopeVars, cmd, fs0, dbTables, tableNames, idx, driver, embedFlag, isEmbed, moduleFlag,
                   moduleName, serverFlag, serverName, outFlag, outPath, codes, fs, genInfo,
                   replacer, written>>

DBInitIgnoreFilesRelational(d) == {"userExample.go", "init_test.go", "init.go.mgo"}

\* the switch of dbInitGenerator.generateCode, lines 110-121
DBInitIgnoreFiles(d) ==
    IF DriverScope(d) = "sql"
    THEN {"userExample.go", "init_test.go", "init.go.mgo"}
    ELSE {"userExample.go", "init_test.go", "init.go"}

\* lines 57-66 and dbInitGenerator.generateCode, lines 99-134
DBInitGenerate ==
    /\ cmd = "dbinit" /\ pc = "dbinit_gen"
    /\ LET dir == OutputDir(outPath, "init-" \o driver)
           n == Len(PassFiles("dbinit", NoTable))
           ev(ret, err) == Event("gen", "dbinit", NoTable, driver, FALSE, outPath, ret, err)
       IN
       \/ /\ DriverScope(driver) = "unsupported"
          /\ calls' = Append(calls, ev(<<>>, ErrDriverInit))
          /\ result' = Failed(ErrDriverInit)
          /\ outPath' = <<>>
          /\ pc' = "done"
          /\ UNCHANGED <<fs, replacer, written>>
       \/ /\ DriverScope(driver) # "unsupported"
          /\ replacer' = [subDirs |-> {"internal/model"}, ignoreFiles |-> DBInitIgnoreFiles(driver),
                          outputDir |-> dir]
          /\ \/ \E k \in 0..(n - 1) :
                   /\ fs' = fs \cup FilesUnder(dir, "dbinit", NoTable, k)
                   /\ calls' = Append(calls, ev(<<>>, ErrSaveFiles))
                   /\ result' = Failed(ErrSaveFiles)
                   /\ outPath' = <<>>
                   /\ pc' = "done"
                   /\ UNCHANGED written
             \/ /\ fs' = fs \cup FilesUnder(dir, "dbinit", NoTable, n)
                /\ written' = written \cup FilesUnder(dir, "dbinit", NoTable, n)
                /\ calls' = Append(calls, ev(dir, ""))
                /\ outPath' = dir
                /\ pc' = "dbinit_finish"
                /\ UNCHANGED result
    /\ UNCHANGED <<fieldVars, substVars, scopeVars, cmd, fs0, dbTables, tableNames, idx, driver, embedFlag, isEmbed, moduleFlag,
                   moduleName, serverFlag, serverName, outFlag, codes, genInfo, printed>>

\* lines 68-81: the help text when --out was empty, then the success message
DBInitFinish ==
    /\ cmd = "dbinit" /\ pc = "dbinit_finish"
    /\ printed' = printed
                   \o (IF outFlag = <<>> THEN <<[msg |-> "using help", out |-> <<>>]>> ELSE <<>>)
                   \o <<[msg |-> "generate init codes successfully", out |-> outPath]>>
    /\ result' = Succeeded(outPath)
    /\ pc' = "done"
    /\ UNCHANGED <<fieldVars, substVars, scopeVars, cmd, fs0, dbTables, tableNames, idx, driver, embedFlag, isEmbed, moduleFlag,
                   moduleName, serverFlag, serverName, outFlag, outPath, codes, fs, genInfo,
                   replacer, calls, written>>

-----------------------------------------------------------------------------
(* The command line a run starts from, and the disk it finds *)

InitCommon ==
    /\ tableNames = <<>>
    /\ idx = 1
    /\ isEmbed = embedFlag
    /\ moduleName = moduleFlag
    /\ serverName = serverFlag
    /\ outPath = outFlag
    /\ codes = NoCodes
    /\ replacer = NoReplacer
    /\ calls = <<>>
    /\ written = {}
    /\ result = NoResult
    /\ printed = <<>>

InitRPC ==
    /\ cmd = "rpc" /\ pc = "rpc_start"
    /\ dbTables \in StringsUpTo(MaxTablesLen)
    /\ driver \in Drivers
    /\ embedFlag \in BOOLEAN
    /\ moduleFlag = "m1"
    /\ serverFlag \in ServerNames
    /\ outFlag \in OutFlags
    /\ fs = {}
    /\ fs0 = fs
    /\ genInfo = {}

InitModel ==
    /\ cmd = "model" /\ pc = "model_start"
    /\ dbTables \in StringsUpTo(MaxTablesLen)
    /\ driver \in Drivers
    /\ embedFlag \in BOOLEAN
    /\ moduleFlag = ""
    /\ serverFlag = ""
    /\ outFlag \in OutFlags
    /\ fs = {}
    /\ fs0 = fs
    /\ genInfo = {}

InitDBInit ==
    /\ cmd = "dbinit" /\ pc = "dbinit_start"
    /\ dbTables = <<>>
    /\ driver \in Drivers
    /\ embedFlag = FALSE
    /\ moduleFlag \in {"", "m1"}
    /\ serverFlag = ""
    /\ outFlag \in OutFlags
    /\ fs \in SUBSET {File(Cwd, TargetFile, NoTable), File(Cwd \o <<"srv">>, TargetFile, NoTable)}
    /\ fs0 = fs
    /\ genInfo \in {{}} \cup {{[dir |-> Cwd \o <<"srv">>, moduleName |-> m, serverName |-> "old"]} :
                                  m \in {"", "m2"}}

\* the variables of the field-list runs, when no such run is modelled
IdleFields ==
    /\ gen = <<>> /\ tplFile = <<>>
    /\ fieldsA = <<>> /\ fieldsB = <<>> /\ contentA = <<>> /\ contentB = <<>>

IdleSubst == substGen = <<>> /\ content = <<>> /\ output = <<>>

\* the variables of the scope runs, when no such run is modelled
IdleScope ==
    /\ tree = {} /\ scopeKind = "" /\ scopeDriver = "" /\ scopePc = "done"
    /\ selected = {} /\ pending = {} /\ materialized = {}

Init == (InitRPC \/ InitModel \/ InitDBInit) /\ InitCommon /\ IdleFields /\ IdleSubst /\ IdleScope

Next ==
    \/ RPCSplitTables
    \/ RPCPrimaryCollaborator
    \/ RPCPrimaryGenerate
    \/ RPCNextService
    \/ RPCServiceCollaborator
    \/ RPCServiceGenerate
    \/ RPCFinish
    \/ ModelSplitTables
    \/ ModelNextTable
    \/ ModelCollaborator
    \/ ModelGenerate
    \/ ModelFinish
    \/ DBInitNames
    \/ DBInitCollision
    \/ DBInitGenerate
    \/ DBInitFinish

vars == <<pipeVars, fieldVars, substVars, scopeVars>>

Spec == Init /\ [][Next]_vars

-----------------------------------------------------------------------------
(* Two runs of rpcGenerator.addFields on one request: SpecFields *)

Generator(md, srv, d, e, table) ==
    [moduleName |-> md, serverName |-> srv, projectName |-> "shop", repoAddr |-> "",
     dbDSN |-> "root:pw@(127.0.0.1:3306)/shop", dbDriver |-> d, isEmbed |-> e,
     codes |-> CodesOf(table, d, e)]

FieldGenerators ==
    {Generator(<<"example.com/shop">>, "user", "mysql", TRUE, "orders"),
     Generator(<<"example.com/shop">>, "user_svc", "mongodb", FALSE, "orders")}

\* a template file that holds the error-code number, and one that does not
EcodeFile == <<"_userExampleNO       = ", "2", "serverNameExample">>

ServiceFile == <<"github.com/zhufuyi/sponge", "/", "internal", "UserExample", "serviceFileMark">>

InitFields ==
    /\ gen \in FieldGenerators
    /\ tplFile \in {EcodeFile, ServiceFile}
    /\ fieldsA = <<>> /\ fieldsB = <<>> /\ contentA = <<>> /\ contentB = <<>>

\* the first pass: addFields, then the fields applied to the file
FirstPass ==
    /\ tplFile # <<>> /\ fieldsA = <<>>
    /\ \E n \in 0..(RandN - 1) :
          LET fields == addFields(gen, n) IN
          /\ fieldsA' = fields
          /\ contentA' = ApplyFields(fields, tplFile)
    /\ UNCHANGED <<pipeVars, substVars, scopeVars, gen, tplFile, fieldsB, contentB>>

\* the second pass, with the same request and the same template
SecondPass ==
    /\ fieldsA # <<>> /\ fieldsB = <<>>
    /\ \E n \in 0..(RandN - 1) :
          LET fields == addFields(gen, n) IN
          /\ fieldsB' = fields
          /\ contentB' = ApplyFields(fields, tplFile)
    /\ UNCHANGED <<pipeVars, substVars, scopeVars, gen, tplFile, fieldsA, contentA>>

\* the variables of the commands, when no command is modelled
IdlePipe ==
    /\ cmd = "" /\ pc = "done" /\ dbTables = <<>> /\ driver = "" /\ embedFlag = FALSE
    /\ moduleFlag = "" /\ serverFlag = "" /\ outFlag = <<>> /\ fs = {} /\ fs0 = {}
    /\ genInfo = {}
    /\ InitCommon

FieldsInit == InitFields /\ IdlePipe /\ IdleSubst /\ IdleScope

FieldsNext == FirstPass \/ SecondPass

SpecFields == FieldsInit /\ [][FieldsNext]_vars

-----------------------------------------------------------------------------
(* The fields of an rpc pass applied to the content of a file: SpecSubst *)

MaxImports == 2

SubstModuleNames ==
    {<<"example.com/shop">>,
     <<"example.com", "/", "shop">>,
     <<"github.com/zhufuyi/sponge">>,
     <<"github.com/zhufuyi/sponge", "-demo">>,
     <<"example.com", "/", "serverNameExample">>}

\* import lines of template files: the shared library, a package of the
\* template, the same package under the template source path, and other text
ImportPkg == <<"github.com/zhufuyi/sponge", "/", "pkg", "/", "logger">>
ImportInternal == <<"github.com/zhufuyi/sponge", "/", "internal", "/", "dao">>
ImportTemplate == <<"github.com/zhufuyi/sponge", "/", "templates/sponge", "/", "internal", "/", "dao">>
ImportOther == <<"fmt">>

Imports == {ImportPkg, ImportInternal, ImportTemplate, ImportOther}

ImportLists == UNION {[1..k -> Imports] : k \in 0..MaxImports}

RECURSIVE Lines(_)
Lines(items) == IF items = <<>> THEN <<>> ELSE Head(items) \o <<"\n">> \o Lines(Tail(items))

InitSubst ==
    /\ \E md \in SubstModuleNames : substGen = Generator(md, "user", "mysql", TRUE, "orders")
    /\ \E items \in ImportLists : content = <<items>>
    /\ output = <<>>

\* SaveFiles on one file: its content with every field applied in order
RenderFile ==
    /\ Len(content) = 1
    /\ \E n \in 0..(RandN - 1) : output' = ApplyFields(addFields(substGen, n), Lines(content[1]))
    /\ content' = <<content[1], "rendered">>
    /\ UNCHANGED <<pipeVars, fieldVars, scopeVars, substGen>>

SubstInit == InitSubst /\ IdlePipe /\ IdleFields /\ IdleScope

SubstNext == RenderFile

SpecSubst == SubstInit /\ [][SubstNext]_vars

-----------------------------------------------------------------------------
(* One pass of modelGenerator.generateCode or dbInitGenerator.generateCode on *)
(* a template tree: SpecScope.  A template file is a directory (a sequence of *)
(* segments) and a name (a sequence of text tokens).                          *)

TplFile(dir, name) == [dir |-> dir, name |-> name]

ModelDir == <<"internal", "model">>

\* the files a template tree is drawn from
TemplateFiles ==
    {TplFile(ModelDir, <<"init.go">>),
     TplFile(ModelDir, <<"init.go", ".mgo">>),
     TplFile(ModelDir, <<"init_test.go">>),
     TplFile(ModelDir, <<"userExample", ".go">>),
     TplFile(ModelDir, <<"types.go">>),
     TplFile(<<"internal", "dao">>, <<"userExample", ".go">>),
     TplFile(<<"internal", "dao">>, <<"init.go">>),
     TplFile(<<>>, <<"go.mod">>)}

RECURSIVE Concat(_)
Concat(tokens) == IF tokens = <<>> THEN "" ELSE Head(tokens) \o Concat(Tail(tokens))

RECURSIVE PathString(_, _)
PathString(dir, name) ==
    IF dir = <<>> THEN name ELSE Head(dir) \o "/" \o PathString(Tail(dir), name)

\* a file lies under a directory of the allow-list
IsUnder(dir, subDir) == Len(subDir) <= Len(dir) /\ SubSeq(dir, 1, Len(subDir)) = subDir

\* the Scope Selector: the files under the allowed directories, less the
\* files whose name is on the deny-list
SelectFiles(t, subDirs, ignoreFiles) ==
    {f \in t : /\ subDirs = {} \/ \E d \in subDirs : IsUnder(f.dir, d)
               /\ Concat(f.name) \notin ignoreFiles}

\* an allowed directory that the template tree does not hold
MissingSubDir(t, subDirs) == \E d \in subDirs : \A f \in t : ~IsUnder(f.dir, d)

\* the fields are also applied to the segments of the path of a written file
OutFile(fields, f) ==
    [dir |-> [i \in DOMAIN f.dir |-> Concat(ApplyFields(fields, Tok(f.dir[i])))],
     name |-> Concat(ApplyFields(fields, f.name))]

ScopeModuleName == <<"example.com/shop">>

ScopeTable == "orders"

\* modelGenerator.addFields
ModelAddFields(codeMap) ==
    DeleteFieldsMark("modelFile")
    \o <<Field(Tok("modelFileMark"), codeMap.model),
         CaseSensitiveField(Tok("UserExample"), codeMap.tableName)>>

\* dbInitGenerator.addFields
DBInitAddFields(md, d) ==
    DeleteFieldsMark("modelInitDBFile")
    \o <<Field(<<"github.com/zhufuyi/sponge", "/", "internal">>, md \o <<"/", "internal">>),
         Field(<<"github.com/zhufuyi/sponge", "/", "configs">>, md \o <<"/", "configs">>),
         Field(<<"init.go", ".mgo">>, <<"init.go">>),
         Field(Tok("modelInitDBFileMark"), InitDBCode(d))>>

ScopeFields ==
    IF scopeKind = "model"
    THEN ModelAddFields(CodesOf(ScopeTable, scopeDriver, FALSE))
    ELSE DBInitAddFields(ScopeModuleName, scopeDriver)

\* subDirs := []string{"internal/model"}
ScopeSubDirs == {ModelDir}

InitScope ==
    /\ tree \in SUBSET TemplateFiles
    /\ \/ scopeKind = "model" /\ scopeDriver = DBDriverMysql
       \/ scopeKind = "dbinit" /\ scopeDriver \in Drivers
    /\ scopePc = "scope"
    /\ selected = {} /\ pending = {} /\ materialized = {}

\* modelGenerator.generateCode up to SaveFiles: the scope handed to the replacer
ModelPassScope ==
    /\ scopeKind = "model" /\ scopePc = "scope"
    /\ IF MissingSubDir(tree, ScopeSubDirs)
       THEN scopePc' = "failed" /\ UNCHANGED <<selected, pending>>
       ELSE /\ selected' = SelectFiles(tree, ScopeSubDirs, ModelIgnoreFiles)
            /\ pending' = selected'
            /\ scopePc' = "save"
    /\ UNCHANGED <<pipeVars, fieldVars, substVars, tree, scopeKind, scopeDriver, materialized>>

\* dbInitGenerator.generateCode up to SaveFiles
DBInitPassScope ==
    /\ scopeKind = "dbinit" /\ scopePc = "scope"
    /\ IF DriverScope(scopeDriver) = "unsupported" \/ MissingSubDir(tree, ScopeSubDirs)
       THEN scopePc' = "failed" /\ UNCHANGED <<selected, pending>>
       ELSE /\ selected' = SelectFiles(tree, ScopeSubDirs, DBInitIgnoreFiles(scopeDriver))
            /\ pending' = selected'
            /\ scopePc' = "save"
    /\ UNCHANGED <<pipeVars, fieldVars, substVars, tree, scopeKind, scopeDriver, materialized>>

\* r.SaveFiles(): one more selected file is written under its substituted path
SaveFile ==
    /\ scopePc = "save"
    /\ \E f \in pending :
          /\ materialized' = materialized \cup {OutFile(ScopeFields, f)}
          /\ pending' = pending \ {f}
    /\ UNCHANGED <<pipeVars, fieldVars, substVars, tree, scopeKind, scopeDriver, scopePc, selected>>

\* r.SaveFiles() returns an error with some files still unwritten
SaveFilesFails ==
    /\ scopePc = "save" /\ pending # {}
    /\ scopePc' = "failed"
    /\ UNCHANGED <<pipeVars, fieldVars, substVars, tree, scopeKind, scopeDriver, selected, pending,
                   materialized>>

\* r.SaveFiles() returns nil
SaveFilesReturns ==
    /\ scopePc = "save" /\ pending = {}
    /\ scopePc' = "done"
    /\ UNCHANGED <<pipeVars, fieldVars, substVars, tree, scopeKind, scopeDriver, selected, pending,
                   materialized>>

ScopeInit == InitScope /\ IdlePipe /\ IdleFields /\ IdleSubst

ScopeNext ==
    \/ ModelPassScope
    \/ DBInitPassScope
    \/ SaveFile
    \/ SaveFilesFails
    \/ SaveFilesReturns

SpecScope == ScopeInit /\ [][ScopeNext]_vars

-----------------------------------------------------------------------------
(* Properties of the commands *)

GenEvents(kind) == {i \in DOMAIN calls : calls[i].op = "gen" /\ calls[i].kind = kind}

Min(S) == CHOOSE i \in S : \A j \in S : i <= j

\* C1: every secondary (service) pass of the rpc command starts with a
\* non-empty outputPath equal to the directory the primary pass returned, every
\* model pass after the first starts with the directory the first model pass
\* returned, and all files of the completed passes lie in one directory.
C1_OutputPathThreaded ==
    /\ \A i \in GenEvents("service") :
          /\ calls[i].out # <<>>
          /\ \E j \in GenEvents("rpc") : j < i /\ calls[j].err = "" /\ calls[i].out = calls[j].ret
    /\ \A i \in GenEvents("model") :
          i # Min(GenEvents("model")) =>
             /\ calls[i].out # <<>>
             /\ calls[i].out = calls[Min(GenEvents("model"))].ret
    /\ cmd \in {"rpc", "model"} => \A f, g \in written : f.dir = g.dir

\* C1 witness: a second secondary pass has started although --out was not given
C1_Witness ==
    /\ outFlag = <<>>
    /\ Cardinality(GenEvents("service")) >= 2

\* C3: in the rpc and model commands a failing collaborator call or generator
\* pass is the last call made, its error is what the command returns, no
\* success message is printed, and the files of the earlier passes stay.
C3_FailureStops ==
    cmd \in {"rpc", "model"} =>
       /\ \A i \in DOMAIN calls :
             calls[i].err # "" =>
                /\ i = Len(calls)
                /\ result = Failed(calls[i].err)
                /\ pc = "done"
                /\ printed = <<>>
       /\ result.status = "error" => calls # <<>> /\ calls[Len(calls)].err = result.err
       /\ written \subseteq fs

\* C3 witness: a pass fails after two earlier passes have written their files
C3_Witness ==
    /\ result.status = "error"
    /\ Len(calls) >= 5
    /\ written # {}
    /\ \E i \in DOMAIN calls : calls[i].op = "gen" /\ calls[i].err = "" /\ calls[i].kind = "service"

\* C6: in the model and rpc commands the embed flag handed to the collaborator
\* and to every rpc and service pass is false when the driver is mongodb and
\* the requested flag for every other driver.
C6_EmbedForcedForMongodb ==
    \A i \in DOMAIN calls :
       (calls[i].op = "collab" \/ calls[i].kind \in {"rpc", "service"}) =>
          calls[i].embed = (IF driver = "mongodb" THEN FALSE ELSE embedFlag)

\* C6 witness: a secondary pass of a mongodb request that asked for --embed=true
C6_Witness ==
    /\ driver = "mongodb"
    /\ embedFlag
    /\ GenEvents("service") # {}

RecordOf(dir) == {g \in genInfo : dir # <<>> /\ g.dir = Abs(dir) /\ g.moduleName # ""}

\* C8: in gen-db-init the module name of the pass is the non-empty name of the
\* output directory's record when there is one, else the --module-name flag;
\* with neither, the command fails with the required-flag error before the
\* collision check, without a generator pass and without writing a file.
C8_ModuleNameRecovered ==
    (cmd = "dbinit" /\ pc # "dbinit_start") =>
       /\ (RecordOf(outFlag) # {}) =>
             /\ result.status # "error" \/ result.err # ErrModuleName
             /\ \E g \in RecordOf(outFlag) : moduleName = g.moduleName
       /\ (RecordOf(outFlag) = {} /\ moduleFlag = "") =>
             /\ result = Failed(ErrModuleName)
             /\ \A i \in DOMAIN calls : calls[i].op \notin {"exists", "gen"}
             /\ fs = fs0 /\ written = {}
       /\ (RecordOf(outFlag) = {} /\ moduleFlag # "") =>
             /\ result.status # "error" \/ result.err # ErrModuleName
             /\ moduleName = moduleFlag

\* C8 witness: a pass ran with the recorded name although another was given
C8_Witness ==
    /\ cmd = "dbinit"
    /\ moduleFlag = "m1"
    /\ moduleName = "m2"
    /\ \E i \in GenEvents("dbinit") : calls[i].err = ""

PastNames == pc \notin {"dbinit_start"} /\ result # Failed(ErrModuleName)

\* C2: in gen-db-init, when --out is given and internal/model/init.go already
\* exists under that directory, no generator pass runs, no file is written and
\* the command returns without error after reporting it; and the command is
\* cancelled only when the file exists under the given directory.
C2_CollisionUnderOutDir ==
    (cmd = "dbinit" /\ outFlag # <<>> /\ PastNames) =>
       /\ TargetExistsUnderOut(fs0, outFlag, TargetFile) =>
             /\ GenEvents("dbinit") = {}
             /\ fs = fs0
             /\ pc = "done" => result.status = "noop"
       /\ result.status = "noop" => TargetExistsUnderOut(fs0, outFlag, TargetFile)

\* C4: in the model and rpc commands neither the collaborator nor any
\* generator pass is run with an empty table name.
C4_NoEmptyTable ==
    cmd \in {"rpc", "model"} =>
       \A i \in DOMAIN calls : calls[i].op \in {"collab", "gen"} => calls[i].table # <<>>

SupportedDrivers == {"mysql", "postgresql", "tidb", "sqlite", "mongodb"}

\* C7: in the rpc and gen-db-init commands a driver that is none of mysql,
\* postgresql, tidb, sqlite, mongodb (in any letter case) makes the command
\* fail before the collaborator is called and before the generation-info
\* record or the target file is read, with nothing written and no setting of
\* the shared replacer changed.
C7_UnsupportedDriverBeforeIO ==
    (cmd \in {"rpc", "dbinit"} /\ ToLower(driver) \notin SupportedDrivers) =>
       /\ \A i \in DOMAIN calls : calls[i].op \notin {"collab", "readinfo", "exists"}
       /\ fs = fs0
       /\ cmd = "rpc" => genInfo = {}
       /\ replacer = NoReplacer
       /\ pc = "done" => result.status = "error"

\* C9: whenever the rpc command reports success, the directory it reports
\* holds a generation-info record with the request's module name and converted
\* server name; a record exists only after the primary pass saved its files.
C9_SuccessHasGenInfo ==
    cmd = "rpc" =>
       /\ result.status = "ok" =>
             \E g \in genInfo :
                /\ g.dir = result.out
                /\ g.moduleName = moduleFlag
                /\ g.serverName = ConvertServerName(serverFlag)
       /\ genInfo # {} => \E i \in GenEvents("rpc") : calls[i].err = ""

-----------------------------------------------------------------------------
(* Properties of the field list and of its application *)

BothPassesRan == fieldsA # <<>> /\ fieldsB # <<>>

NumberText == <<"_userExampleNO       = ", "2">>

Digits == {"0", "1", "2", "3", "4", "5", "6", "7", "8", "9"}

NumberTexts == {d : d \in Digits} \cup {a \o b : a \in Digits \ {"0"}, b \in Digits}

Rendered == Len(content) = 2

RECURSIVE Occurs(_, _, _)
Occurs(text, old, i) ==
    IF i > Len(text) THEN FALSE ELSE IsPrefixAt(text, old, i) \/ Occurs(text, old, i + 1)

IndexOfOld(fields, old) == CHOOSE i \in DOMAIN fields : fields[i].Old = old

Swapped(fields, i, j) ==
    [k \in DOMAIN fields |-> IF k = i THEN fields[j] ELSE IF k = j THEN fields[i] ELSE fields[k]]

\* what the module path rewrite is meant to make of an import line
ExpectedImport(item, md) ==
    IF item \in {ImportInternal, ImportTemplate} THEN md \o <<"/", "internal", "/", "dao">>
    ELSE item

RECURSIVE ExpectedLines(_, _)
ExpectedLines(items, md) ==
    IF items = <<>> THEN <<>>
    ELSE ExpectedImport(Head(items), md) \o <<"\n">> \o ExpectedLines(Tail(items), md)

ModulePathOrder(md) ==
    LET fields == addFields(substGen, 0)
        broad == IndexOfOld(fields, <<"github.com/zhufuyi/sponge">>)
        narrow == IndexOfOld(fields, md \o <<"/", "pkg">>)
    IN /\ \E i \in DOMAIN fields : fields[i].Old = <<"github.com/zhufuyi/sponge">>
       /\ \E i \in DOMAIN fields : fields[i].Old = md \o <<"/", "pkg">>
       /\ broad < narrow
       /\ output = ExpectedLines(content[1], md)
       /\ (\E k \in DOMAIN content[1] : content[1][k] = ImportPkg) =>
             ApplyFields(Swapped(fields, broad, narrow), Lines(content[1])) # output

NoRuleTextIn(md) ==
    \A i \in DOMAIN addFields(substGen, 0) : ~Occurs(md, addFields(substGen, 0)[i].Old, 1)

NonEmptyTables(names) == SelectSeq(names, LAMBDA t : t # <<>>)

\* the passes a request asks for: the first entry of --db-table as the primary
\* pass, then the non-empty entries after it, in the order they were listed
ExpectedPasses ==
    <<[kind |-> "rpc", table |-> Head(Split(dbTables))]>>
    \o [i \in DOMAIN NonEmptyTables(Tail(Split(dbTables))) |->
           [kind |-> "service", table |-> NonEmptyTables(Tail(Split(dbTables)))[i]]]

\* C12: the calls of an rpc request are a prefix of: collaborator then primary
\* pass for the first table, then collaborator then secondary pass for each
\* non-empty remaining table in the listed order; every call but the last one
\* made has returned without error, and a request that reports success has
\* made all of them.
C12_PassesInListedOrder ==
    cmd = "rpc" =>
       /\ Len(calls) <= 2 * Len(ExpectedPasses)
       /\ \A i \in DOMAIN calls :
             LET pass == ExpectedPasses[(i + 1) \div 2] IN
             /\ calls[i].table = pass.table
             /\ calls[i].op = (IF i % 2 = 1 THEN "collab" ELSE "gen")
             /\ i % 2 = 0 => calls[i].kind = pass.kind
             /\ i < Len(calls) => calls[i].err = ""
       /\ pc \in {"rpc_finish"} \/ result.status = "ok" =>
             /\ Len(calls) = 2 * Len(ExpectedPasses)
             /\ \A i \in DOMAIN calls : calls[i].err = ""

\* C12 witness: a successful request with a named first table and two
\* differently named secondary tables
C12_Witness ==
    /\ cmd = "rpc" /\ result.status = "ok"
    /\ Head(tableNames) # <<>>
    /\ \E i, j \in GenEvents("service") : i < j /\ calls[i].table # calls[j].table

\* C13: once rpcGenerator.generateCode has selected a file scope, the scope is
\* the mongodb one (init.go ignored) exactly when the embed flag was forced to
\* false, and the requested flag is kept only with the relational scope.
C13_ScopeAgreesWithEmbed ==
    (cmd = "rpc" /\ replacer.ignoreFiles # {}) =>
       IF "init.go" \in replacer.ignoreFiles
       THEN isEmbed = FALSE
       ELSE isEmbed = embedFlag

ModelInitFiles == {"init.go", "init_test.go", "init.go.mgo"}

\* C11: every file a model pass has written, at any point of the pass, lies
\* under internal/model and is none of init.go, init_test.go, init.go.mgo; a
\* pass that returned without error has written every other file that the
\* template tree holds under internal/model.
C11_ModelScope ==
    scopeKind = "model" =>
       /\ \A o \in materialized :
             /\ IsUnder(o.dir, ModelDir)
             /\ o.name \notin ModelInitFiles
       /\ scopePc = "done" =>
             \A f \in tree :
                (IsUnder(f.dir, ModelDir) /\ Concat(f.name) \notin ModelInitFiles) =>
                   \E o \in materialized : o.dir = f.dir /\ o.name = Concat(f.name)

\* C11 witness: a finished model pass on a tree that holds the three excluded
\* files, two other files under internal/model and files outside it
C11_Witness ==
    /\ scopeKind = "model" /\ scopePc = "done"
    /\ tree = TemplateFiles
    /\ Cardinality(materialized) = 2

\* the template tree as shipped: internal/model holds init.go, init.go.mgo,
\* init_test.go and userExample.go, and nothing else
ShippedModelDir ==
    {Concat(f.name) : f \in {g \in tree : IsUnder(g.dir, ModelDir)}}
       = {"init.go", "init.go.mgo", "init_test.go", "userExample.go"}

KeptInit == IF DriverScope(scopeDriver) = "sql" THEN "init.go" ELSE "init.go.mgo"

\* C14: a gen-db-init pass with a supported driver never keeps userExample.go,
\* init_test.go or the other variant's init file in scope; on the shipped
\* template it keeps exactly init.go (relational drivers) or init.go.mgo
\* (mongodb), and the one file it writes is internal/model/init.go, the name
\* the command checks for collisions.
C14_DBInitScope ==
    (scopeKind = "dbinit" /\ scopePc \in {"save", "done"}) =>
       /\ \A f \in selected :
             Concat(f.name) \notin ({"userExample.go", "init_test.go", "init.go", "init.go.mgo"}
                                       \ {KeptInit})
       /\ ShippedModelDir =>
             /\ {Concat(f.name) : f \in selected} = {KeptInit}
             /\ \A o \in materialized : PathString(o.dir, o.name) = TargetFile
             /\ scopePc = "done" => Cardinality(materialized) = 1

\* C14 witness: a finished mongodb pass on the shipped template
C14_Witness ==
    /\ scopeKind = "dbinit" /\ scopePc = "done"
    /\ DriverScope(scopeDriver) = "mongo"
    /\ ShippedModelDir
    /\ \E o \in materialized : PathString(o.dir, o.name) = TargetFile

====
